---- MODULE Spec2Model ----
(***************************************************************************)
(* A model of the Yle latest-article scraper (src/scraper.js and its       *)
(* standalone variant src/unnamed/part_000).                               *)
(*                                                                         *)
(* Strings are sequences of one-character strings, so that trim, split,    *)
(* replace and startsWith are computed character by character.  The        *)
(* Playwright driver is the environment: every driver call may succeed     *)
(* with what the loaded document holds, or throw.                          *)
(***************************************************************************)
EXTENDS Integers, Sequences, FiniteSets, TLC

VARIABLES
    pc,          \* position of the run inside fetchLatestYleArticle
    session,     \* browser / context / page: "none", "open", "closed", "closeFailed"
    doc,         \* the document currently loaded in the page
    href,        \* local `href`
    targetUrl,   \* local `targetUrl`
    title,       \* local `title`
    text,        \* local `text`
    waits,       \* the two visibility waits of the readiness race
    ops,         \* log of the driver operations issued so far
    error,       \* the message of the error thrown ("" when none)
    retval,      \* the value handed to `return` (delivered once finally ends)
    stderr,      \* lines written with console.error
    exitCode,    \* process.exitCode
    clockReads,  \* number of `new Date()` reads
    fnIn,        \* argument of the pure function under study
    fnOut,       \* its result
    fnStage,     \* which applications have been made
    data,        \* the record handed to renderHtml
    html,        \* the document renderHtml returned
    mainPc,      \* position of the main entry (the async function of scraper.js 190-210)
    outPath,     \* the value after --out in process.argv
    stdout,      \* texts written with console.log
    files,       \* paths of the files written, in order
    twin         \* the run of the standalone script (part_000) on the same responses

vars == <<pc, session, doc, href, targetUrl, title, text, waits, ops, error,
          retval, stderr, exitCode, clockReads, fnIn, fnOut, fnStage, data, html,
          mainPc, outPath, stdout, files, twin>>

runVars == <<pc, session, doc, href, targetUrl, title, text, waits, ops, error,
             retval, stderr, exitCode, clockReads>>

fnVars == <<fnIn, fnOut, fnStage, data, html>>

cliVars == <<mainPc, outPath, stdout, files>>

\* What the main entry leaves alone: the locals of the run and the arguments
\* of the function under study.
runLocals == <<pc, session, doc, href, targetUrl, title, text, waits, ops, error,
               retval, clockReads>>

fnArgs == <<fnIn, fnOut, fnStage>>

(***************************************************************************)
(* Bounds of the model.                                                    *)
(***************************************************************************)
MaxLinks == 2      \* teaser links on a homepage
MaxNormLen == 4    \* length of the raw strings handed to the normalizer
MaxEscLen == 3     \* length of the strings handed to escapeHtml
MaxPlainLen == 3   \* length of the title and of the text handed to the plain-text print

(***************************************************************************)
(* Character strings.                                                      *)
(***************************************************************************)
\* JavaScript's WhiteSpace and LineTerminator characters that occur in the model
\* (what \s matches and what String.prototype.trim strips).
WhiteSpace == {" ", "\t", "\r", "\n"}

StringsUpTo(A, n) == UNION {[1..k -> A] : k \in 0..n}

Min(S) == CHOOSE x \in S : \A y \in S : x <= y
Max(S) == CHOOSE x \in S : \A y \in S : x >= y

RECURSIVE Concat(_)
Concat(ss) == IF ss = <<>> THEN <<>> ELSE Head(ss) \o Concat(Tail(ss))

\* String.prototype.startsWith
StartsWith(s, p) == Len(s) >= Len(p) /\ SubSeq(s, 1, Len(p)) = p

\* String.prototype.trim
Trim(s) ==
    LET keep == {i \in 1..Len(s) : s[i] \notin WhiteSpace}
    IN  IF keep = {} THEN <<>> ELSE SubSeq(s, Min(keep), Max(keep))

\* String.prototype.split with a one-character separator: "" splits to [""].
RECURSIVE Split(_, _)
Split(s, sep) ==
    LET at == {i \in 1..Len(s) : s[i] = sep}
    IN  IF at = {} THEN <<s>>
        ELSE <<SubSeq(s, 1, Min(at) - 1)>> \o Split(SubSeq(s, Min(at) + 1, Len(s)), sep)

\* Array.prototype.join
RECURSIVE Join(_, _)
Join(ss, sep) ==
    IF ss = <<>> THEN <<>>
    ELSE IF Len(ss) = 1 THEN ss[1]
    ELSE ss[1] \o <<sep>> \o Join(Tail(ss), sep)

\* line.replace(/\s+/g, " "): every maximal run of whitespace becomes one space.
RECURSIVE CollapseWs(_)
CollapseWs(s) ==
    IF s = <<>> THEN <<>>
    ELSE IF s[1] \in WhiteSpace
         THEN LET rest == {i \in 2..Len(s) : s[i] \notin WhiteSpace}
              IN  <<" ">> \o (IF rest = {} THEN <<>>
                              ELSE CollapseWs(SubSeq(s, Min(rest), Len(s))))
         ELSE <<s[1]>> \o CollapseWs(Tail(s))

\* The map callback of the cleanup, mutated: collapses but does not trim.
CleanLineNoTrim(line) == CollapseWs(line)

\* (line) => line.replace(/\s+/g, " ").trim()
CleanLine(line) == Trim(CollapseWs(line))

\* The cleanup, mutated: the empty lines are dropped before the lines are trimmed.
NormalizeFilterBeforeTrim(raw) ==
    LET lines == Split(raw, "\n")
        mapped == [i \in 1..Len(lines) |-> CollapseWs(lines[i])]
        kept == SelectSeq(mapped, LAMBDA l : l # <<>>)
    IN  Join([i \in 1..Len(kept) |-> Trim(kept[i])], "\n")

\* text.split("\n").map(...).filter(Boolean).join("\n")
Normalize(raw) ==
    LET lines == Split(raw, "\n")
        mapped == [i \in 1..Len(lines) |-> CleanLine(lines[i])]
        kept == SelectSeq(mapped, LAMBDA l : l # <<>>)
    IN  Join(kept, "\n")

\* String.prototype.replaceAll with a one-character pattern.
RECURSIVE ReplaceAll(_, _, _)
ReplaceAll(s, ch, rep) ==
    IF s = <<>> THEN <<>>
    ELSE (IF s[1] = ch THEN rep ELSE <<s[1]>>) \o ReplaceAll(Tail(s), ch, rep)

AmpEntity == <<"&", "a", "m", "p", ";">>
LtEntity == <<"&", "l", "t", ";">>
GtEntity == <<"&", "g", "t", ";">>
QuotEntity == <<"&", "q", "u", "o", "t", ";">>
AposEntity == <<"&", "#", "3", "9", ";">>

\* escapeHtml, mutated: the ampersand is replaced last, so the ampersands of
\* the entities already written are escaped again.
EscapeHtmlAmpLast(s) ==
    ReplaceAll(ReplaceAll(ReplaceAll(ReplaceAll(ReplaceAll(s,
        "<", LtEntity), ">", GtEntity), "\"", QuotEntity), "'", AposEntity),
        "&", AmpEntity)

\* function escapeHtml(s = "")
escapeHtml(s) ==
    ReplaceAll(ReplaceAll(ReplaceAll(ReplaceAll(ReplaceAll(s,
        "&", AmpEntity), "<", LtEntity), ">", GtEntity), "\"", QuotEntity),
        "'", AposEntity)

(***************************************************************************)
(* Values of the run.                                                      *)
(***************************************************************************)
\* JavaScript null (what getAttribute returns for a missing attribute).
Null == <<"null">>
\* No element matches the selector in the document.
Absent == <<"absent">>

\* "https://yle.fi/", the homepage loaded at the start of the run
HomeUrl == <<"h","t","t","p","s",":","/","/","y","l","e",".","f","i","/">>
\* "https://yle.fi", the base of new URL(href, base)
BaseOrigin == <<"h","t","t","p","s",":","/","/","y","l","e",".","f","i">>
\* "http", the prefix tested by href.startsWith
HttpPrefix == <<"h","t","t","p">>

Letters == {"a","b","c","d","e","f","g","h","i","j","k","l","m",
            "n","o","p","q","r","s","t","u","v","w","x","y","z"}

\* A URL reference is absolute when it starts with a scheme: a letter, then
\* letters, up to a colon (RFC 3986, over the characters of the model).
IsAbsoluteUrl(u) ==
    \E i \in 2..Len(u) : u[i] = ":" /\ \A j \in 1..(i - 1) : u[j] \in Letters

\* new URL(href, "https://yle.fi").toString() for references made of letters,
\* "/" and ":" (no query, fragment, dot segment, backslash or whitespace):
\* a reference with a scheme stands for itself, "//host/path" takes the
\* scheme of the base and must name a host, "/path" takes its origin, and any
\* other reference is a path below "/".  ok = FALSE is the TypeError thrown
\* for an invalid URL.
UrlResolve(ref, base) ==
    IF IsAbsoluteUrl(ref) THEN [ok |-> TRUE, url |-> ref]
    ELSE IF StartsWith(ref, <<"/", "/">>)
         THEN LET rest == SubSeq(ref, 3, Len(ref))
                  host == Split(rest, "/")[1]
              IN  IF host = <<>> THEN [ok |-> FALSE, url |-> <<>>]
                  ELSE [ok |-> TRUE,
                        url |-> SubSeq(base, 1, 6) \o ref
                                \o (IF Len(host) = Len(rest) THEN <<"/">> ELSE <<>>)]
    ELSE IF StartsWith(ref, <<"/">>) THEN [ok |-> TRUE, url |-> base \o ref]
    ELSE [ok |-> TRUE, url |-> base \o <<"/">> \o ref]

\* href.startsWith("http") ? href : new URL(href, "https://yle.fi").toString()
ResolveTarget(h) ==
    IF StartsWith(h, HttpPrefix) THEN [ok |-> TRUE, url |-> h]
    ELSE UrlResolve(h, BaseOrigin)

\* The href values a teaser link may carry: none, empty, a rooted path, an
\* absolute URL, a relative path whose first word begins with "http", a
\* scheme-relative reference, and one that names no host.
HrefRooted == <<"/","a">>
HrefAbsolute == <<"h","t","t","p",":","/","/","e","/","a">>
HrefHttpWord == <<"h","t","t","p","a">>
HrefSchemeRelative == <<"/","/","e">>
HrefNoHost == <<"/","/">>
Hrefs == {Null, <<>>, HrefRooted, HrefAbsolute, HrefHttpWord, HrefSchemeRelative,
          HrefNoHost}

\* The texts the elements of an article page may hold: each container has a
\* text of its own, so that the tier a body text came from can be told.
TextBlank == <<" ", "\n">>
TextA == <<"a">>
TextB == <<" ", "b", " ", " ", "c", "\n", "\n", "d", " ">>
TextC == <<"e", "\t", "f">>
Headings == {<<"\n", "T", " ">>}
TierTexts(tier) ==
    CASE tier = "article" -> {TextBlank, TextA}
      [] tier = "content" -> {<<>>, TextB}
      [] OTHER -> {TextBlank, TextC}

TierSet == {"article", "content", "main"}

NoDoc ==
    [kind |-> "blank", links |-> <<>>, h1 |-> Absent,
     article |-> Absent, content |-> Absent, main |-> Absent]

HomePages ==
    {[NoDoc EXCEPT !.kind = "home", !.links = l] : l \in StringsUpTo(Hrefs, MaxLinks)}

ArticlePages ==
    {[kind |-> "article", links |-> <<>>, h1 |-> h, article |-> a, content |-> c, main |-> m] :
        h \in Headings \cup {Absent},
        a \in TierTexts("article") \cup {Absent},
        c \in TierTexts("content") \cup {Absent},
        m \in TierTexts("main") \cup {Absent}}

\* The value of a return statement: nothing yet, null, or an ArticleRecord.
NoValue == [kind |-> "unset", title |-> <<>>, url |-> <<>>, text |-> <<>>, fetchedAt |-> <<>>]
\* The catch block, mutated: it returns what the run has gathered so far.
PartialValue == [NoValue EXCEPT !.kind = "record"]

\* return null
NullValue == [NoValue EXCEPT !.kind = "null"]
ArticleRecord(t, u, x, at) ==
    [kind |-> "record", title |-> t, url |-> u, text |-> x, fetchedAt |-> at]

Op(o, a, k) == [op |-> o, arg |-> a, ok |-> k]

\* Logical time: the number of driver operations issued so far.
Now == Len(ops)

DigitChars == <<"0", "1", "2", "3", "4", "5", "6", "7", "8", "9">>

RECURSIVE Digits(_)
Digits(n) ==
    IF n < 10 THEN <<DigitChars[n + 1]>>
    ELSE Digits(n \div 10) \o <<DigitChars[(n % 10) + 1]>>

\* new Date().toISOString(): the instant t written with digits between the
\* letters T and Z.
IsoString(t) == <<"T">> \o Digits(t) \o <<"Z">>

(***************************************************************************)
(* fetchLatestYleArticle: control flow.                                    *)
(***************************************************************************)
\* The steps that run before the try statement (session acquisition).
AcquireSteps == {"launch", "newContext", "newPage"}

\* Where a throw goes, mutated: the try statement ends before the article load.
OnThrowNarrowTry(step) ==
    IF step \in AcquireSteps \cup {"gotoArticle"} THEN "rejected" ELSE "catch"

\* Where a throw goes, mutated: a failed homepage load is tried again.
OnThrowRetryHome(step) ==
    IF step \in AcquireSteps THEN "rejected"
    ELSE IF step = "gotoHome" THEN "gotoHome" ELSE "catch"

\* Where a throw at a step goes: the try statement covers every step after the
\* acquisition; an error thrown before it rejects the promise of the run.
OnThrow(step) == IF step \in AcquireSteps THEN "rejected" ELSE "catch"

\* The finally block, mutated: the teardown follows the return statement of
\* the try block only, not the catch block.
FinallyAfterReturnOnly(from) == IF from = "catch" THEN "returned" ELSE "closePage"

\* After the return of the try block or of the catch block, the finally block runs.
FinallyEntry(from) == "closePage"

\* The teardown, mutated: the closes have no .catch, so a failed close ends it.
AfterCloseUnguarded(res, ok) ==
    IF ~ok THEN "returned"
    ELSE CASE res = "page" -> "closeContext"
           [] res = "context" -> "closeBrowser"
           [] OTHER -> "returned"

\* page.close, context.close, browser.close in this order; .catch(() => {})
\* swallows a failed close.
AfterClose(res, ok) ==
    CASE res = "page" -> "closeContext"
      [] res = "context" -> "closeBrowser"
      [] OTHER -> "returned"

\* locator.first(), mutated: the last matching element.
LastLink(links) == links[Len(links)]

\* page.locator(".underlay-link").first()
FirstLink(links) == links[1]

\* The guards between the tiers, mutated: the content-class container is
\* queried whether or not the article tier yielded text.
AfterTierNoGuard(tier, t) ==
    CASE tier = "article" -> "contentCount"
      [] tier = "content" -> (IF t = <<>> THEN "mainCount" ELSE "build")
      [] OTHER -> "build"

\* The guards between the tiers, mutated: a tier that was read is final, even
\* when its text is empty.
AfterTierNoFallThrough(tier, t) == "build"

\* if (!text && ...) before the content-class tier, if (!text) before main.
AfterTier(tier, t) ==
    CASE tier = "article" -> (IF t = <<>> THEN "contentCount" ELSE "build")
      [] tier = "content" -> (IF t = <<>> THEN "mainCount" ELSE "build")
      [] OTHER -> "build"

CountPc(tier) ==
    CASE tier = "article" -> "articleCount"
      [] tier = "content" -> "contentCount"
      [] OTHER -> "mainCount"

TextPc(tier) ==
    CASE tier = "article" -> "articleText"
      [] tier = "content" -> "contentText"
      [] OTHER -> "mainText"

Throw(step, msg) == pc' = OnThrow(step) /\ error' = msg

\* The standalone script before it is started.
TwinIdle ==
    [pc |-> "idle", ops |-> <<>>, href |-> Null, targetUrl |-> <<>>, title |-> <<>>,
     text |-> <<>>, error |-> "", stdout |-> <<>>, stderr |-> <<>>, exitCode |-> 0]

RunInit ==
    /\ pc = "launch"
    /\ session = [browser |-> "none", context |-> "none", page |-> "none"]
    /\ doc = NoDoc
    /\ href = Null
    /\ targetUrl = <<>>
    /\ title = <<>>
    /\ text = <<>>
    /\ waits = [article |-> "idle", content |-> "idle"]
    /\ ops = <<>>
    /\ error = ""
    /\ retval = NoValue
    /\ stderr = <<>>
    /\ exitCode = 0
    /\ clockReads = 0

FnIdle == fnIn = <<>> /\ fnOut = <<>> /\ fnStage = "idle" /\ data = NoValue /\ html = <<>>

\* The main entry before the run has ended.
CliIdle == mainPc = "await" /\ outPath = Absent /\ stdout = <<>> /\ files = <<>>

Init == RunInit /\ FnIdle /\ CliIdle /\ twin = TwinIdle

\* const browser = await chromium.launch({ headless: true })
Launch ==
    /\ pc = "launch"
    /\ \E ok \in BOOLEAN :
        /\ ops' = Append(ops, Op("launch", <<>>, ok))
        /\ IF ok
           THEN /\ session' = [session EXCEPT !.browser = "open"]
                /\ pc' = "newContext"
                /\ UNCHANGED error
           ELSE /\ Throw("launch", "LaunchError")
                /\ UNCHANGED session
    /\ UNCHANGED <<doc, href, targetUrl, title, text, waits, retval, stderr,
                   exitCode, clockReads, fnVars, cliVars, twin>>

\* const context = await browser.newContext()
NewContext ==
    /\ pc = "newContext"
    /\ \E ok \in BOOLEAN :
        /\ ops' = Append(ops, Op("newContext", <<>>, ok))
        /\ IF ok
           THEN /\ session' = [session EXCEPT !.context = "open"]
                /\ pc' = "newPage"
                /\ UNCHANGED error
           ELSE /\ Throw("newContext", "DriverError")
                /\ UNCHANGED session
    /\ UNCHANGED <<doc, href, targetUrl, title, text, waits, retval, stderr,
                   exitCode, clockReads, fnVars, cliVars, twin>>

\* const page = await context.newPage()
NewPage ==
    /\ pc = "newPage"
    /\ \E ok \in BOOLEAN :
        /\ ops' = Append(ops, Op("newPage", <<>>, ok))
        /\ IF ok
           THEN /\ session' = [session EXCEPT !.page = "open"]
                /\ pc' = "gotoHome"
                /\ UNCHANGED error
           ELSE /\ Throw("newPage", "DriverError")
                /\ UNCHANGED session
    /\ UNCHANGED <<doc, href, targetUrl, title, text, waits, retval, stderr,
                   exitCode, clockReads, fnVars, cliVars, twin>>

\* await page.goto("https://yle.fi/", ...)
GotoHome ==
    /\ pc = "gotoHome"
    /\ \E ok \in BOOLEAN :
        /\ ops' = Append(ops, Op("goto", HomeUrl, ok))
        /\ IF ok
           THEN /\ \E d \in HomePages : doc' = d
                /\ pc' = "waitForSelector"
                /\ UNCHANGED error
           ELSE /\ Throw("gotoHome", "NavigationError")
                /\ UNCHANGED doc
    /\ UNCHANGED <<session, href, targetUrl, title, text, waits, retval, stderr,
                   exitCode, clockReads, fnVars, cliVars, twin>>

\* await page.waitForSelector(".underlay-link", { timeout: 30000 }): resolves
\* only when a matching element exists (and is visible), else times out.
WaitForSelector ==
    /\ pc = "waitForSelector"
    /\ \E ok \in BOOLEAN :
        /\ ok => Len(doc.links) >= 1
        /\ ops' = Append(ops, Op("waitForSelector", <<".underlay-link">>, ok))
        /\ IF ok
           THEN pc' = "getAttribute" /\ UNCHANGED error
           ELSE Throw("waitForSelector", "TimeoutError")
    /\ UNCHANGED <<session, doc, href, targetUrl, title, text, waits, retval,
                   stderr, exitCode, clockReads, fnVars, cliVars, twin>>

\* const href = await firstLink.getAttribute("href"); the !href check; targetUrl
GetAttribute ==
    /\ pc = "getAttribute"
    /\ \E ok \in BOOLEAN :
        /\ ops' = Append(ops, Op("getAttribute", <<".underlay-link">>, ok))
        /\ IF ~ok
           THEN /\ Throw("getAttribute", "DriverError")
                /\ UNCHANGED <<href, targetUrl>>
           ELSE LET h == FirstLink(doc.links)
                    r == ResolveTarget(h)
                IN  /\ href' = h
                    /\ IF h = Null \/ h = <<>>
                       THEN /\ Throw("getAttribute", "No href found on the most recent .underlay-link")
                            /\ UNCHANGED targetUrl
                       ELSE IF ~r.ok
                       THEN /\ Throw("getAttribute", "Invalid URL")
                            /\ UNCHANGED targetUrl
                       ELSE /\ targetUrl' = r.url
                            /\ pc' = "gotoArticle"
                            /\ UNCHANGED error
    /\ UNCHANGED <<session, doc, title, text, waits, retval, stderr, exitCode,
                   clockReads, fnVars, cliVars, twin>>

\* await page.goto(targetUrl, ...): the browser refuses to navigate to a URL
\* without a scheme ("Cannot navigate to invalid URL"), and may fail otherwise.
GotoArticle ==
    /\ pc = "gotoArticle"
    /\ \E ok \in BOOLEAN :
        /\ ok => IsAbsoluteUrl(targetUrl)
        /\ ops' = Append(ops, Op("goto", targetUrl, ok))
        /\ IF ok
           THEN /\ \E d \in ArticlePages : doc' = d
                /\ pc' = "race"
                /\ UNCHANGED error
           ELSE /\ Throw("gotoArticle", "NavigationError")
                /\ UNCHANGED doc
    /\ UNCHANGED <<session, href, targetUrl, title, text, waits, retval, stderr,
                   exitCode, clockReads, fnVars, cliVars, twin>>

\* Promise.race([articleLocator.waitFor(...).catch(() => {}),
\*               contentLocator.waitFor(...).catch(() => {})]): both waits start.
RaceStart ==
    /\ pc = "race"
    /\ waits' = [article |-> "pending", content |-> "pending"]
    /\ ops' = ops \o <<Op("waitFor", <<"article">>, TRUE), Op("waitFor", <<"content">>, TRUE)>>
    /\ pc' = "raceAwait"
    /\ UNCHANGED <<session, doc, href, targetUrl, title, text, error, retval,
                   stderr, exitCode, clockReads, fnVars, cliVars, twin>>

\* One of the two waits settles: the element became visible, the 15 s timeout
\* elapsed, or the wait failed otherwise.  The .catch turns the last two into
\* a fulfilled promise.  The wait that loses the race keeps running while the
\* run goes on, for as long as the page is open.
SettleWait(w) ==
    /\ waits[w] = "pending"
    /\ session.page = "open"
    /\ \E o \in {"visible", "timeout", "error"} :
        /\ o = "visible" => doc[w] # Absent
        /\ waits' = [waits EXCEPT ![w] = o]
    /\ UNCHANGED <<pc, session, doc, href, targetUrl, title, text, ops, error,
                   retval, stderr, exitCode, clockReads, fnVars, cliVars, twin>>

SettleArticleWait == SettleWait("article")

SettleContentWait == SettleWait("content")

\* The promise a wait hands to Promise.race, mutated: the wait has no .catch,
\* so a timeout or an error rejects it.
SettledAsUncaught(o) == IF o = "visible" THEN "fulfilled" ELSE "rejected"

\* waitFor(...).catch(() => {}): whatever the outcome of the wait, the promise
\* handed to Promise.race is fulfilled.
SettledAs(o) == "fulfilled"

\* await Promise.race([...]): the race settles as soon as one of its two
\* promises has, and throws if that promise is rejected.
RaceProceed ==
    /\ pc = "raceAwait"
    /\ \E w \in {"article", "content"} :
        /\ waits[w] # "pending"
        /\ IF SettledAs(waits[w]) = "fulfilled"
           THEN pc' = "textContent" /\ UNCHANGED error
           ELSE Throw("race", "TimeoutError")
    /\ UNCHANGED <<session, doc, href, targetUrl, title, text, waits, ops,
                   retval, stderr, exitCode, clockReads, fnVars, cliVars, twin>>

\* const title = (await page.locator("h1").first().textContent()
\*                  .catch(() => null))?.trim() || ""
ReadTitle ==
    /\ pc = "textContent"
    /\ \E ok \in BOOLEAN :
        /\ ok => doc.h1 # Absent
        /\ ops' = Append(ops, Op("textContent", <<"h1">>, ok))
        /\ title' = IF ok THEN Trim(doc.h1) ELSE <<>>
    /\ pc' = CountPc("article")
    /\ UNCHANGED <<session, doc, href, targetUrl, text, waits, error, retval,
                   stderr, exitCode, clockReads, fnVars, cliVars, twin>>

\* await <tier>Locator.count(): not guarded by a .catch
TierCount(tier) ==
    /\ pc = CountPc(tier)
    /\ \E ok \in BOOLEAN :
        /\ ops' = Append(ops, Op("count", <<tier>>, ok))
        /\ IF ~ok THEN Throw(CountPc(tier), "DriverError")
           ELSE /\ pc' = IF doc[tier] # Absent THEN TextPc(tier) ELSE AfterTier(tier, text)
                /\ UNCHANGED error
    /\ UNCHANGED <<session, doc, href, targetUrl, title, text, waits, retval,
                   stderr, exitCode, clockReads, fnVars, cliVars, twin>>

\* text = (await <tier>Locator.first().innerText().catch(() => ""))?.trim()
TierText(tier) ==
    /\ pc = TextPc(tier)
    /\ \E ok \in BOOLEAN :
        /\ ops' = Append(ops, Op("innerText", <<tier>>, ok))
        /\ text' = Trim(IF ok THEN doc[tier] ELSE <<>>)
        /\ pc' = AfterTier(tier, text')
    /\ UNCHANGED <<session, doc, href, targetUrl, title, waits, error, retval,
                   stderr, exitCode, clockReads, fnVars, cliVars, twin>>

ArticleCount == TierCount("article")
ArticleText == TierText("article")
ContentCount == TierCount("content")
ContentText == TierText("content")
MainCount == TierCount("main")
MainText == TierText("main")

\* const cleaned = ...; return { title, url: targetUrl, text: cleaned,
\*                               fetchedAt: new Date().toISOString() }
Build ==
    /\ pc = "build"
    /\ retval' = ArticleRecord(title, targetUrl, Normalize(text), IsoString(Now))
    /\ clockReads' = clockReads + 1
    /\ pc' = FinallyEntry("return")
    /\ UNCHANGED <<session, doc, href, targetUrl, title, text, waits, ops, error,
                   stderr, exitCode, fnVars, cliVars, twin>>

\* catch (error) { console.error(...); process.exitCode = 1; return null; }
Catch ==
    /\ pc = "catch"
    /\ stderr' = Append(stderr, <<"Scrape failed:", error>>)
    /\ exitCode' = 1
    /\ retval' = NullValue
    /\ pc' = FinallyEntry("catch")
    /\ UNCHANGED <<session, doc, href, targetUrl, title, text, waits, ops, error,
                   clockReads, fnVars, cliVars, twin>>

ClosePc(res) ==
    CASE res = "page" -> "closePage"
      [] res = "context" -> "closeContext"
      [] OTHER -> "closeBrowser"

\* await <res>.close().catch(() => {}).  Closing the page ends the wait that
\* is still pending (its rejection is swallowed by its .catch).
Close(res) ==
    /\ pc = ClosePc(res)
    /\ \E ok \in BOOLEAN :
        /\ ops' = Append(ops, Op("close", <<res>>, ok))
        /\ session' = [session EXCEPT ![res] = IF ok THEN "closed" ELSE "closeFailed"]
        /\ pc' = AfterClose(res, ok)
    /\ waits' = IF res = "page"
                THEN [w \in DOMAIN waits |-> IF waits[w] = "pending" THEN "error" ELSE waits[w]]
                ELSE waits
    /\ UNCHANGED <<doc, href, targetUrl, title, text, error, retval, stderr,
                   exitCode, clockReads, fnVars, cliVars, twin>>

ClosePage == Close("page")
CloseContext == Close("context")
CloseBrowser == Close("browser")

Next ==
    \/ Launch \/ NewContext \/ NewPage
    \/ GotoHome \/ WaitForSelector \/ GetAttribute \/ GotoArticle
    \/ RaceStart \/ SettleArticleWait \/ SettleContentWait \/ RaceProceed
    \/ ReadTitle
    \/ ArticleCount \/ ArticleText \/ ContentCount \/ ContentText
    \/ MainCount \/ MainText
    \/ Build \/ Catch
    \/ ClosePage \/ CloseContext \/ CloseBrowser

Spec == Init /\ [][Next]_vars

(***************************************************************************)
(* Properties of a run.                                                    *)
(***************************************************************************)
\* The lines of a text; the empty text has none.
LinesOf(t) == IF t = <<>> THEN <<>> ELSE Split(t, "\n")

Issued(o, a) == \E i \in 1..Len(ops) : ops[i].op = o /\ ops[i].arg = a

Succeeded(o, a) == \E i \in 1..Len(ops) : ops[i] = Op(o, a, TRUE)

Failed(o) == \E i \in 1..Len(ops) : ops[i].op = o /\ ~ops[i].ok

\* The run has ended: its promise is fulfilled (returned) or rejected.
Returned == pc = "returned"

ArticleLoaded == doc.kind = "article"

Diagnosed == error # "" /\ stderr = <<(<<"Scrape failed:", error>>)>>

\* C1: when the run returns, whatever happened at the homepage load, the wait
\* for the teaser link, the href read, the URL resolution, the article load,
\* the readiness race and the content reads, page.close, context.close and
\* browser.close have each been invoked.
SessionReleasedOnReturn ==
    Returned => \A res \in {"page", "context", "browser"} : Issued("close", <<res>>)

\* A run whose article load failed has returned.
SessionReleasedWitness ==
    /\ Returned
    /\ ops[7] = Op("goto", targetUrl, FALSE)
    /\ \A res \in {"page", "context", "browser"} : Issued("close", <<res>>)

\* A step of link resolution or a page load failed: a driver call threw, the
\* href was missing or empty, or the href made no URL.
LinkStepFailed ==
    \/ Failed("goto") \/ Failed("waitForSelector") \/ Failed("getAttribute")
    \/ error = "No href found on the most recent .underlay-link"
    \/ error = "Invalid URL"

\* C2: a failure of the homepage load, of the wait for a teaser link, of the
\* href read or of the article load never rejects the promise of the run and
\* never leaves a record; the run returns null after writing one diagnostic.
LinkFailureYieldsNull ==
    LinkStepFailed =>
        /\ pc # "rejected"
        /\ retval.kind # "record"
        /\ Returned => retval = NullValue /\ Diagnosed /\ exitCode = 1

\* A run on a homepage without any teaser link has returned null.
LinkFailureWitness ==
    /\ Returned
    /\ doc.kind = "home" /\ doc.links = <<>>
    /\ Failed("waitForSelector")
    /\ retval = NullValue

\* C3: once the article page has loaded, the run returns a record whatever
\* content query throws.
ContentResolverNeverFails ==
    Returned /\ ArticleLoaded => retval.kind = "record"

\* What a tier yielded: the text read from its first element, if it was read.
RawYield(tier) == IF Succeeded("innerText", <<tier>>) THEN doc[tier] ELSE <<>>

TrimmedYield(tier) == Trim(RawYield(tier))

FirstNonEmpty(a, c, m) == IF a # <<>> THEN a ELSE IF c # <<>> THEN c ELSE m

\* C4 as stated: the first tier whose inner text is non-empty gives the text.
FirstNonEmptyTierWins ==
    retval.kind = "record" =>
        /\ retval.text = Normalize(FirstNonEmpty(RawYield("article"),
                                RawYield("content"), RawYield("main")))
        /\ Issued("innerText", <<"content">>) => RawYield("article") = <<>>
        /\ Issued("innerText", <<"main">>) =>
               RawYield("article") = <<>> /\ RawYield("content") = <<>>

\* C4, amended: the first tier whose inner text is non-empty after trimming
\* gives the text; the content-class container is read only when the article
\* tier yielded nothing (absent, failed read, or no non-whitespace character),
\* and main only when both higher tiers yielded nothing.
FirstNonBlankTierWins ==
    retval.kind = "record" =>
        /\ retval.text = Normalize(FirstNonEmpty(TrimmedYield("article"),
                                TrimmedYield("content"), TrimmedYield("main")))
        /\ Issued("count", <<"content">>) => TrimmedYield("article") = <<>>
        /\ Issued("count", <<"main">>) =>
               TrimmedYield("article") = <<>> /\ TrimmedYield("content") = <<>>

\* A record built from a page whose three containers hold different texts.
TierPriorityWitness ==
    /\ retval.kind = "record"
    /\ doc.article = TextA /\ doc.content = TextB /\ doc.main = TextC
    /\ Succeeded("innerText", <<"article">>)
    /\ retval.text = TextA

\* C5: every non-empty href read from the teaser link gives an absolute target
\* URL, an absolute href unchanged and any other href resolved against
\* https://yle.fi, and the url of a returned record is absolute.
HrefResolvedToAbsolute ==
    /\ pc = "gotoArticle" =>
          /\ IsAbsoluteUrl(targetUrl)
          /\ targetUrl = IF IsAbsoluteUrl(href) THEN href
                         ELSE UrlResolve(href, BaseOrigin).url
    /\ retval.kind = "record" => IsAbsoluteUrl(retval.url)

\* C6: the href read is the one of the first matching element in document
\* order, the URL loaded next is the one it names, and a first element without
\* href, or with an empty one, fails the run instead of a later element being
\* taken.
FirstLinkDecides ==
    [][/\ (pc = "getAttribute" /\ pc' = "gotoArticle") =>
              /\ href' = doc.links[1]
              /\ targetUrl' = ResolveTarget(doc.links[1]).url
       /\ (pc = "getAttribute" /\ pc' # pc /\ doc.links[1] \in {Null, <<>>}) =>
              pc' = "catch"
       /\ (pc = "gotoArticle" /\ pc' # pc) =>
              ops'[Len(ops')].arg = ResolveTarget(doc.links[1]).url
       /\ (pc = "catch" /\ pc' # pc) => retval' = NullValue]_vars

\* The href of a homepage with two different teaser links has been read.
FirstLinkWitness ==
    /\ pc = "gotoArticle"
    /\ Len(doc.links) = 2
    /\ doc.links[2] \notin {Null, <<>>, doc.links[1]}
    /\ href = doc.links[1]

\* The states of the orchestrator, read off the position of the run.
Phase ==
    CASE pc \in {"launch", "newContext", "newPage", "gotoHome"} -> "Init"
      [] pc \in {"waitForSelector", "getAttribute"} -> "HomepageLoaded"
      [] pc = "gotoArticle" -> "LinkResolved"
      [] pc \in {"race", "raceAwait", "textContent", "articleCount", "articleText",
                 "contentCount", "contentText", "mainCount", "mainText"} -> "ArticlePageLoaded"
      [] pc = "build" -> "ContentResolved"
      [] pc \in {"catch", "rejected"} -> "Failed"
      [] OTHER -> IF retval.kind = "record" THEN "Done" ELSE "Failed"

ContentOps == {"waitFor", "textContent", "count", "innerText"}

\* The loads and queries were issued in the order of the state machine, and
\* the record, if any, was built after content resolution, once.
RunOrder ==
    /\ \A i \in 1..Len(ops) :
          /\ (ops[i].op = "goto" /\ ops[i].arg # HomeUrl) =>
                 /\ \E j \in 1..(i - 1) : ops[j] = Op("goto", HomeUrl, TRUE)
                 /\ \E j \in 1..(i - 1) : ops[j] = Op("getAttribute", <<".underlay-link">>, TRUE)
                 /\ ops[i].arg = targetUrl
          /\ ops[i].op \in ContentOps =>
                 \E j \in 1..(i - 1) : ops[j] = Op("goto", targetUrl, TRUE)
          /\ (ops[i] .op = "close" /\ ops[i].arg = <<"page">> /\ Phase = "Done") =>
                 retval.fetchedAt = IsoString(i - 1)
    /\ Phase \in {"HomepageLoaded", "LinkResolved"} => doc.kind = "home"
    /\ Phase = "LinkResolved" => targetUrl # <<>>
    /\ Phase \in {"ArticlePageLoaded", "ContentResolved", "Done"} => ArticleLoaded
    /\ retval.kind = "record" <=> Phase = "Done"
    /\ Phase = "Done" =>
          /\ error = "" /\ clockReads = 1
          /\ \E tier \in TierSet : Issued("count", <<tier>>)
          /\ retval.title = Trim(retval.title)
          /\ retval.text = Normalize(retval.text)
          /\ retval.url = targetUrl
    /\ Phase # "Done" => clockReads = 0
    /\ (Phase = "Failed" /\ pc # "rejected") => error # ""
    /\ (Returned /\ Phase = "Failed") => retval = NullValue

PhaseRank(ph) ==
    CASE ph = "Init" -> 0
      [] ph = "HomepageLoaded" -> 1
      [] ph = "LinkResolved" -> 2
      [] ph = "ArticlePageLoaded" -> 3
      [] ph = "ContentResolved" -> 4
      [] ph = "Done" -> 5
      [] OTHER -> 6

\* Every step keeps the state of the orchestrator, moves it to the next state
\* of the chain, or moves it to Failed; Done and Failed are never left.
PhaseOrder ==
    [][\/ Phase' = Phase
       \/ Phase \notin {"Done", "Failed"} /\ Phase' = "Failed"
       \/ Phase # "Failed" /\ PhaseRank(Phase') = PhaseRank(Phase) + 1]_vars

EmptyPage ==
    /\ ArticleLoaded
    /\ doc.h1 = Absent
    /\ \A tier \in TierSet : doc[tier] = Absent

\* C11: a run on an article page without h1, article, content-class container
\* and main ends by returning a record with title "" and text "" and the
\* resolved url; it does not raise, writes no diagnostic and leaves the exit
\* status at zero.
EmptyExtractionSucceeds ==
    (pc \in {"returned", "rejected"} /\ EmptyPage) =>
        /\ pc = "returned"
        /\ retval = ArticleRecord(<<>>, targetUrl, <<>>, retval.fetchedAt)
        /\ stderr = <<>>
        /\ exitCode = 0


\* The run has ended by returning or by raising.
Ended == pc \in {"returned", "rejected"}

HomeLoads == Cardinality({i \in 1..Len(ops) : ops[i].op = "goto" /\ ops[i].arg = HomeUrl})

ArticleLoads == Cardinality({i \in 1..Len(ops) : ops[i].op = "goto" /\ ops[i].arg # HomeUrl})

LinkWaits == Cardinality({i \in 1..Len(ops) : ops[i].op = "waitForSelector"})

\* Once a step has failed (an error was thrown), the only driver operations
\* issued are the closes of the teardown; null is handed to return by one
\* step, which writes the one diagnostic.
NothingAfterFailure ==
    [][/\ error # "" =>
              \/ ops' = ops
              \/ /\ Len(ops') = Len(ops) + 1
                 /\ SubSeq(ops', 1, Len(ops)) = ops
                 /\ ops'[Len(ops')].op = "close"
       /\ retval = NullValue => retval' = retval /\ stderr' = stderr
       /\ retval' = NullValue /\ retval # NullValue => Len(stderr') = 1]_vars

\* C12 as stated: in every run the homepage load is issued exactly once, the
\* wait for the teaser link and the article load at most once; after the first
\* failing step only teardown calls are issued; a failed run yields null once.
NoRetriesInEveryRun ==
    /\ [](/\ HomeLoads <= 1 /\ LinkWaits <= 1 /\ ArticleLoads <= 1
          /\ Ended => HomeLoads = 1
          /\ (Ended /\ error # "") => retval = NullValue)
    /\ NothingAfterFailure

\* C12, amended: no operation is issued twice; the homepage load is issued
\* exactly once in every run that acquired its session; after the first
\* failing step only teardown calls are issued; a run that fails after the
\* acquisition returns null, handed over once, and a run whose acquisition
\* fails raises without any load.
NoRetries ==
    /\ [](/\ HomeLoads <= 1 /\ LinkWaits <= 1 /\ ArticleLoads <= 1
          /\ (Ended /\ session.page # "none") => HomeLoads = 1
          /\ (Ended /\ session.page = "none") => HomeLoads = 0 /\ pc = "rejected"
          /\ (Returned /\ error # "") => retval = NullValue /\ Len(stderr) = 1
          /\ pc = "rejected" => error # "" /\ retval = NoValue)
    /\ NothingAfterFailure

\* A run whose article load failed has returned after the three closes.
NoRetriesWitness ==
    /\ Returned
    /\ HomeLoads = 1 /\ LinkWaits = 1 /\ ArticleLoads = 1
    /\ Failed("goto")
    /\ Len(ops) = 10
    /\ retval = NullValue


WaitOutcomes == {"visible", "timeout", "error"}

\* C13: the run leaves the readiness race only for the title read, it does so
\* once one of the two waits has settled, whatever the outcome and whatever
\* the other wait does, and may do so as soon as one has; no outcome of a wait
\* throws an error, writes a diagnostic or changes what the run returns.
RaceBestEffort ==
    /\ [](pc = "raceAwait" =>
              /\ error = ""
              /\ (ENABLED RaceProceed) <=> (\E w \in DOMAIN waits : waits[w] \in WaitOutcomes))
    /\ [][/\ (pc = "raceAwait" /\ pc' # pc) =>
                 /\ pc' = "textContent"
                 /\ \E w \in DOMAIN waits : waits[w] \in WaitOutcomes
          /\ (waits' # waits \/ pc = "raceAwait") =>
                 /\ error' = error /\ stderr' = stderr /\ exitCode' = exitCode
                 /\ retval' = retval
                 /\ pc' # pc => pc' \notin {"catch", "rejected"}]_vars

\* A record was returned although neither wait saw its element: the wait for
\* the article container timed out and the other one failed.
RaceBestEffortWitness ==
    /\ retval.kind = "record"
    /\ waits.content = "error" /\ waits.article = "timeout"
    /\ doc.article # Absent


\* C14: when the run ends, browser.close has been invoked if the browser was
\* launched, and context.close if the context was created, also in a run
\* whose newContext or newPage failed.
AcquiredSessionReleased ==
    Ended =>
        /\ Succeeded("launch", <<>>) => Issued("close", <<"browser">>)
        /\ Succeeded("newContext", <<>>) => Issued("close", <<"context">>)


\* The resources whose close was invoked, in the order of the invocations.
ClosesIssued ==
    LET closes == SelectSeq(ops, LAMBDA o : o.op = "close")
    IN  [i \in 1..Len(closes) |-> closes[i].arg[1]]

TeardownPcs == {"closePage", "closeContext", "closeBrowser"}

\* C18: the closes are invoked in the order page, context, browser; whether a
\* close succeeds or fails, the next one is invoked and the run returns after
\* the third; no step of the teardown changes the value handed to return, the
\* error, the diagnostics or the exit status, and none raises.
TeardownContained ==
    /\ [](/\ ClosesIssued = SubSeq(<<"page", "context", "browser">>, 1, Len(ClosesIssued))
          /\ Returned =>
                /\ ClosesIssued = <<"page", "context", "browser">>
                /\ retval.kind = IF error = "" THEN "record" ELSE "null")
    /\ [][(pc \in TeardownPcs) =>
              (/\ retval' = retval /\ error' = error
               /\ stderr' = stderr /\ exitCode' = exitCode
               /\ pc' # pc =>
                     (/\ pc' = AfterClose(ops'[Len(ops')].arg[1], TRUE)
                      /\ pc' \notin {"catch", "rejected"}))]_vars

\* A record was returned after all three closes had failed.
TeardownContainedWitness ==
    /\ Returned
    /\ retval.kind = "record"
    /\ \A res \in DOMAIN session : session[res] = "closeFailed"


\* A text without any non-whitespace character.
Blank(t) == \A i \in 1..Len(t) : t[i] \in WhiteSpace

NextTierPc(tier) ==
    CASE tier = "article" -> "contentCount"
      [] tier = "content" -> "mainCount"
      [] OTHER -> "build"

\* C19: after the text read of a tier whose first element holds no
\* non-whitespace character (or whose read failed) the run goes on to the next
\* tier, and after one that holds such a character to the record; a record has
\* an empty text only if each of the three tiers was absent, failed on its
\* text read, or held no non-whitespace character.
BlankTierFallsThrough ==
    /\ [](retval.kind = "record" /\ retval.text = <<>> =>
              \A tier \in TierSet :
                  \/ doc[tier] = Absent
                  \/ \E i \in 1..Len(ops) : ops[i] = Op("innerText", <<tier>>, FALSE)
                  \/ Blank(doc[tier]))
    /\ [][\A tier \in TierSet :
              (pc = TextPc(tier) /\ pc' # pc) =>
                  LET last == ops'[Len(ops')]
                  IN  pc' = IF ~last.ok \/ Blank(doc[tier]) THEN NextTierPc(tier)
                            ELSE "build"]_vars

\* The text of main was returned after the article element, holding only
\* whitespace, and the content-class container, holding nothing, were read.
BlankTierWitness ==
    /\ retval.kind = "record"
    /\ doc.article = TextBlank /\ doc.content = <<>> /\ doc.main = TextC
    /\ \A tier \in TierSet : Succeeded("innerText", <<tier>>)
    /\ retval.text = Normalize(TextC)


(***************************************************************************)
(* The text normalizer on its own: every raw string up to MaxNormLen.      *)
(***************************************************************************)
NormAlphabet == {"a", "b", " ", "\t", "\r", "\n"}

NormInit ==
    /\ RunInit
    /\ fnIn \in StringsUpTo(NormAlphabet, MaxNormLen)
    /\ fnOut = <<>> /\ fnStage = "raw" /\ data = NoValue /\ html = <<>>
    /\ CliIdle /\ twin = TwinIdle

\* cleaned = normalize(text)
NormalizeRaw ==
    /\ fnStage = "raw"
    /\ fnOut' = <<Normalize(fnIn)>>
    /\ fnStage' = "once"
    /\ UNCHANGED <<fnIn, data, html, runVars, cliVars, twin>>

\* The normalizer applied to its own result.
NormalizeAgain ==
    /\ fnStage = "once"
    /\ fnOut' = Append(fnOut, Normalize(fnOut[1]))
    /\ fnStage' = "twice"
    /\ UNCHANGED <<fnIn, data, html, runVars, cliVars, twin>>

NextNorm == NormalizeRaw \/ NormalizeAgain

SpecNorm == NormInit /\ [][NextNorm]_vars

\* C8: normalize(normalize(s)) = normalize(s) for every raw string s.
NormalizeIdempotent == fnStage = "twice" => fnOut[2] = fnOut[1]

\* The normalizer was applied twice to a string it changes into several lines.
NormalizeIdempotentWitness ==
    /\ fnStage = "twice"
    /\ fnOut[1] # fnIn
    /\ \E i \in 1..Len(fnOut[1]) : fnOut[1][i] = "\n"

\* The words of a line: its maximal runs of non-whitespace characters.
RECURSIVE Words(_)
Words(s) ==
    LET solid == {i \in 1..Len(s) : s[i] \notin WhiteSpace}
    IN  IF solid = {} THEN <<>>
        ELSE LET a == Min(solid)
                 gaps == {i \in a..Len(s) : s[i] \in WhiteSpace}
                 b == IF gaps = {} THEN Len(s) ELSE Min(gaps) - 1
             IN  <<SubSeq(s, a, b)>> \o Words(SubSeq(s, b + 1, Len(s)))

\* C9: in the normalized text no line is empty, no line begins or ends with
\* whitespace, the only whitespace inside a line is a single space between two
\* non-space characters, and the lines are the non-blank source lines, each
\* reduced to its words joined by single spaces, in source order.
NormalizedShape ==
    fnStage = "once" =>
        LET out == LinesOf(fnOut[1])
            src == Split(fnIn, "\n")
            want == [i \in 1..Len(src) |-> Join(Words(src[i]), " ")]
        IN  /\ \A k \in 1..Len(out) :
                  /\ out[k] # <<>>
                  /\ out[k][1] \notin WhiteSpace
                  /\ out[k][Len(out[k])] \notin WhiteSpace
                  /\ \A i \in 1..Len(out[k]) :
                         out[k][i] \in WhiteSpace =>
                             /\ out[k][i] = " "
                             /\ i > 1 /\ out[k][i - 1] \notin WhiteSpace
                             /\ i < Len(out[k]) /\ out[k][i + 1] \notin WhiteSpace
            /\ out = SelectSeq(want, LAMBDA l : l # <<>>)

\* A raw text with blank or padded lines was normalized to two different lines.
NormalizedShapeWitness ==
    /\ fnStage = "once"
    /\ Len(LinesOf(fnOut[1])) = 2
    /\ LinesOf(fnOut[1])[1] # LinesOf(fnOut[1])[2]
    /\ Len(fnIn) > Len(fnOut[1])

(***************************************************************************)
(* renderHtml.  The document is a sequence of pieces: the literal chunks of *)
(* the template, and the values interpolated between them.                 *)
(***************************************************************************)
Lit(chunk) == [lit |-> TRUE, s |-> <<chunk>>]
Val(chars) == [lit |-> FALSE, s |-> chars]

\* The paragraph of a line, mutated: an empty line gets no paragraph.
ParagraphSkipEmpty(p) ==
    IF p = <<>> THEN <<>> ELSE <<Lit("<p>"), Val(escapeHtml(p)), Lit("</p>")>>

\* (p) => `<p>${escapeHtml(p)}</p>`
Paragraph(p) == <<Lit("<p>"), Val(escapeHtml(p)), Lit("</p>")>>

RECURSIVE JoinPieces(_, _)
JoinPieces(groups, sep) ==
    IF groups = <<>> THEN <<>>
    ELSE IF Len(groups) = 1 THEN groups[1]
    ELSE groups[1] \o <<sep>> \o JoinPieces(Tail(groups), sep)

\* title || "Yle uusin artikkeli" and title || "Viimeisin Ylen artikkeli"
TitleOr(t, fallback) == IF t # <<>> THEN t ELSE <<fallback>>

\* function renderHtml({ title, url, text, fetchedAt })
renderHtml(d) ==
    LET lines == Split(d.text, "\n")
        paragraphs ==
            IF d.text # <<>>
            THEN JoinPieces([i \in 1..Len(lines) |-> Paragraph(lines[i])], Lit("\n"))
            ELSE <<Lit("<p>(No article text extracted)</p>")>>
    IN  <<Lit("<!doctype html><html lang=fi><head>...<title>"),
          Val(escapeHtml(TitleOr(d.title, "Yle uusin artikkeli"))),
          Lit("</title><style>...</style>...<meta property=og:title content="),
          Val(escapeHtml(TitleOr(d.title, "Yle uusin artikkeli"))),
          Lit("/><meta property=og:url content="),
          Val(escapeHtml(d.url)),
          Lit("/><meta name=description content=Viimeisin Ylen artikkeli. Paivitetty: "),
          Val(escapeHtml(d.fetchedAt)),
          Lit("/>...</head><body><header><h1>"),
          Val(escapeHtml(TitleOr(d.title, "Viimeisin Ylen artikkeli"))),
          Lit("</h1><div class=meta>Lahde: <a href="),
          Val(escapeHtml(d.url)),
          Lit(">"),
          Val(escapeHtml(d.url)),
          Lit("</a> - Paivitetty: "),
          Val(escapeHtml(d.fetchedAt)),
          Lit("</div></header><main>")>>
        \o paragraphs
        \o <<Lit("</main><footer>...</footer></body></html>")>>

(***************************************************************************)
(* escapeHtml and renderHtml on their own: every string up to MaxEscLen,   *)
(* placed in one field of a record.                                        *)
(***************************************************************************)
EscAlphabet == {"&", "<", ">", "\"", "'", "a", "\n"}

RecordFields == {"title", "url", "text", "fetchedAt"}

SampleRecord == ArticleRecord(<<"t">>, HrefAbsolute, <<"x">>, IsoString(0))

HtmlInit ==
    /\ RunInit
    /\ fnIn \in StringsUpTo(EscAlphabet, MaxEscLen)
    /\ fnOut = <<>> /\ fnStage = "raw" /\ html = <<>>
    /\ \E f \in RecordFields : data = [SampleRecord EXCEPT ![f] = fnIn]
    /\ CliIdle /\ twin = TwinIdle

\* escapeHtml(s)
EscapeStep ==
    /\ fnStage = "raw"
    /\ fnOut' = <<escapeHtml(fnIn)>>
    /\ fnStage' = "escaped"
    /\ UNCHANGED <<fnIn, data, html, runVars, cliVars, twin>>

\* const html = renderHtml(data)
RenderStep ==
    /\ fnStage = "escaped"
    /\ html' = renderHtml(data)
    /\ fnStage' = "rendered"
    /\ UNCHANGED <<fnIn, fnOut, data, runVars, cliVars, twin>>

NextHtml == EscapeStep \/ RenderStep

SpecHtml == HtmlInit /\ [][NextHtml]_vars

Entities == {AmpEntity, LtEntity, GtEntity, QuotEntity, AposEntity}

\* The entity that stands for one character, or the character itself.
EntityOf(ch) ==
    CASE ch = "&" -> AmpEntity
      [] ch = "<" -> LtEntity
      [] ch = ">" -> GtEntity
      [] ch = "\"" -> QuotEntity
      [] ch = "'" -> AposEntity
      [] OTHER -> <<ch>>

EachCharOnce(str) == Concat([i \in 1..Len(str) |-> EntityOf(str[i])])

\* No markup character is left, and every ampersand begins an entity.
NoRawMarkup(out) ==
    \A i \in 1..Len(out) :
        /\ out[i] \notin {"<", ">", "\"", "'"}
        /\ out[i] = "&" => \E e \in Entities : SubSeq(out, i, i + Len(e) - 1) = e

\* The interpolated values of a document, in order.
ValuesOf(pieces) ==
    LET vals == SelectSeq(pieces, LAMBDA piece : ~piece.lit)
    IN  [i \in 1..Len(vals) |-> vals[i].s]

\* C10: the result of escapeHtml holds no <, >, " or ', each of its ampersands
\* begins one of the five entities, and it is the input with each character
\* replaced once; the values interpolated by renderHtml are the escaped
\* title, url, fetchedAt and body lines, so none of them holds raw markup.
HtmlEscaped ==
    /\ fnStage \in {"escaped", "rendered"} =>
          /\ NoRawMarkup(fnOut[1])
          /\ fnOut[1] = EachCharOnce(fnIn)
    /\ fnStage = "rendered" =>
          LET lines == LinesOf(data.text)
              t1 == EachCharOnce(TitleOr(data.title, "Yle uusin artikkeli"))
              t2 == EachCharOnce(TitleOr(data.title, "Viimeisin Ylen artikkeli"))
              u == EachCharOnce(data.url)
              at == EachCharOnce(data.fetchedAt)
          IN  /\ \A k \in 1..Len(html) : ~html[k].lit => NoRawMarkup(html[k].s)
              /\ ValuesOf(html) = <<t1, t1, u, at, t2, u, u, at>>
                                    \o [i \in 1..Len(lines) |-> EachCharOnce(lines[i])]

\* A body text with markup characters on two lines has been rendered.
HtmlEscapedWitness ==
    /\ fnStage = "rendered"
    /\ data.text = fnIn
    /\ \E i, j, k \in 1..Len(fnIn) : fnIn[i] = "<" /\ fnIn[j] = "\n" /\ fnIn[k] = "&"

\* The pieces of a document between <main> and </main>.
BodyOf(pieces) ==
    LET open == CHOOSE i \in 1..Len(pieces) : pieces[i] = Lit("</div></header><main>")
    IN  SubSeq(pieces, open + 1, Len(pieces) - 1)

\* C16: the body of the document rendered from a record whose text has
\* n >= 1 lines consists of n paragraphs, the i-th holding the escaped i-th
\* line, separated by line breaks; the body rendered from an empty text is the
\* one placeholder paragraph.
OneParagraphPerLine ==
    fnStage = "rendered" =>
        LET body == BodyOf(html)
            lines == Split(data.text, "\n")
            n == Len(lines)
        IN  IF data.text = <<>>
            THEN body = <<Lit("<p>(No article text extracted)</p>")>>
            ELSE /\ Len(body) = 4 * n - 1
                 /\ Cardinality({k \in 1..Len(body) : body[k] = Lit("<p>")}) = n
                 /\ \A i \in 1..n :
                        /\ body[4 * i - 3] = Lit("<p>")
                        /\ body[4 * i - 2] = Val(EachCharOnce(lines[i]))
                        /\ body[4 * i - 1] = Lit("</p>")
                        /\ i < n => body[4 * i] = Lit("\n")

\* A text of three lines, one of them empty, has been rendered.
OneParagraphPerLineWitness ==
    /\ fnStage = "rendered"
    /\ data.text = fnIn
    /\ Len(Split(fnIn, "\n")) = 3
    /\ \E i \in 1..3 : Split(fnIn, "\n")[i] = <<>>

(***************************************************************************)
(* The main entry of scraper.js: the run, then writeSite or the plain-text *)
(* print.                                                                  *)
(***************************************************************************)
\* Boolean(entry) for an entry that is a string or null.
Truthy(x) == x # Null /\ x # Absent /\ x # <<>>

\* The plain-text print, mutated: no filter(Boolean), so the entry of an
\* empty title stays as a line.
PlainTextNoFilter(t, u, x) ==
    Join(<<IF t # <<>> THEN <<"TITLE: ">> \o t ELSE Null,
           <<"URL: ">> \o u,
           <<"---">>,
           IF x # <<>> THEN x ELSE <<"(No article text extracted)">>>>, "\n")

\* [title ? `TITLE: ${title}` : null, `URL: ${url}`, "---",
\*  text || "(No article text extracted)"].filter(Boolean).join("\n")
PlainText(t, u, x) ==
    LET entries == <<IF t # <<>> THEN <<"TITLE: ">> \o t ELSE Null,
                     <<"URL: ">> \o u,
                     <<"---">>,
                     IF x # <<>> THEN x ELSE <<"(No article text extracted)">>>>
    IN  Join(SelectSeq(entries, Truthy), "\n")

\* A path is the sequence of its segments.  path.dirname(p)
Dirname(p) == IF Len(p) <= 1 THEN <<".">> ELSE SubSeq(p, 1, Len(p) - 1)

OutFile == <<"dist", "index.html">>

\* What follows --out on the command line: nothing (no flag, or the flag as
\* last argument), the empty string, or a path.
OutArgs == {Absent, <<>>, OutFile}

\* An error thrown inside the async function of the main entry, which has no
\* catch: the rejection is unhandled, so the runtime writes the error to
\* stderr and ends the process with exit status 1.
Unhandled(msg) ==
    /\ mainPc' = "crashed"
    /\ stderr' = Append(stderr, <<"Uncaught", msg>>)
    /\ exitCode' = 1

\* The check of the result, mutated: there is no if (!data) return.
AfterAwaitNoCheck(d) == "argv"

\* if (!data) return;
AfterAwait(d) == IF d.kind = "null" THEN "done" ELSE "argv"

\* const data = await fetchLatestYleArticle(); if (!data) return;
MainAwaitData ==
    /\ mainPc = "await"
    /\ pc = "returned"
    /\ data' = retval
    /\ mainPc' = AfterAwait(retval)
    /\ UNCHANGED <<runLocals, stderr, exitCode, fnArgs, html, outPath, stdout, files, twin>>

\* await fetchLatestYleArticle() when the promise of the run is rejected
MainAwaitRejected ==
    /\ mainPc = "await"
    /\ pc = "rejected"
    /\ Unhandled(error)
    /\ UNCHANGED <<runLocals, fnVars, outPath, stdout, files, twin>>

\* const outFlagIndex = process.argv.indexOf("--out"); const outPath = ...;
\* if (outPath) ... else ...
MainArgvFrom(args) ==
    /\ mainPc = "argv"
    /\ \E o \in args :
        /\ outPath' = o
        /\ mainPc' = IF Truthy(o) THEN "mkdir" ELSE "print"
    /\ UNCHANGED <<runVars, fnVars, stdout, files, twin>>

MainArgv == MainArgvFrom(OutArgs)

\* writeSite: await fs.mkdir(outDir, { recursive: true })
Mkdir ==
    /\ mainPc = "mkdir"
    /\ \E ok \in BOOLEAN :
        IF ok THEN mainPc' = "writeHtml" /\ UNCHANGED <<stderr, exitCode>>
        ELSE Unhandled("FsError")
    /\ UNCHANGED <<runLocals, fnVars, outPath, stdout, files, twin>>

\* writeSite: const html = renderHtml(data); await fs.writeFile(outPath, html, "utf8")
WriteHtml ==
    /\ mainPc = "writeHtml"
    /\ html' = renderHtml(data)
    /\ \E ok \in BOOLEAN :
        IF ok THEN /\ files' = Append(files, outPath)
                   /\ mainPc' = "writeJson"
                   /\ UNCHANGED <<stderr, exitCode>>
        ELSE Unhandled("FsError") /\ UNCHANGED files
    /\ UNCHANGED <<runLocals, fnArgs, data, outPath, stdout, twin>>

\* writeSite: await fs.writeFile(path.join(outDir, "latest.json"), JSON.stringify(data, null, 2), "utf8")
WriteJson ==
    /\ mainPc = "writeJson"
    /\ \E ok \in BOOLEAN :
        IF ok THEN /\ files' = Append(files, Dirname(outPath) \o <<"latest.json">>)
                   /\ mainPc' = "logWrote"
                   /\ UNCHANGED <<stderr, exitCode>>
        ELSE Unhandled("FsError") /\ UNCHANGED files
    /\ UNCHANGED <<runLocals, fnVars, outPath, stdout, twin>>

\* console.log(`Wrote site to ${outPath}`)
LogWrote ==
    /\ mainPc = "logWrote"
    /\ stdout' = Append(stdout, <<"Wrote site to ">> \o Join([i \in 1..Len(outPath) |-> <<outPath[i]>>], "/"))
    /\ mainPc' = "done"
    /\ UNCHANGED <<runVars, fnVars, outPath, files, twin>>

\* const output = [...].filter(Boolean).join("\n"); console.log(output)
MainPrint ==
    /\ mainPc = "print"
    /\ stdout' = Append(stdout, PlainText(data.title, data.url, data.text))
    /\ mainPc' = "done"
    /\ UNCHANGED <<runVars, fnVars, outPath, files, twin>>

MainNext ==
    \/ MainAwaitData \/ MainAwaitRejected \/ MainArgv
    \/ Mkdir \/ WriteHtml \/ WriteJson \/ LogWrote \/ MainPrint

NextCli == Next \/ MainNext

SpecCli == Init /\ [][NextCli]_vars

\* The run has failed: it handed null to return, or it raised.
RunFailed == retval = NullValue \/ pc = "rejected"

\* On a failed run a diagnostic is on stderr once the failure was handled,
\* the exit status is then non-zero, writeSite is never entered, no file is
\* written and nothing is printed.
FailureLeavesNothing ==
    RunFailed =>
        /\ mainPc \in {"await", "done", "crashed"}
        /\ files = <<>> /\ stdout = <<>> /\ html = <<>>
        /\ (retval = NullValue \/ mainPc = "crashed") => exitCode # 0 /\ stderr # <<>>

\* C15 as stated: a failed run leaves a non-zero exit status, a diagnostic and
\* no artifact, and the exit status is non-zero only in a run that returned
\* null.
ExitStatusOnlyAfterNull ==
    /\ FailureLeavesNothing
    /\ exitCode # 0 => retval = NullValue

\* C15, amended: a failed run leaves a non-zero exit status, a diagnostic and
\* no artifact; the exit status is non-zero only in a run that returned null,
\* in a run that raised while acquiring its session, or after a file
\* operation of writeSite failed, the last two through the unhandled
\* rejection of the main entry.
ExitStatusOnlyAfterFailure ==
    /\ FailureLeavesNothing
    /\ exitCode # 0 =>
          \/ retval = NullValue
          \/ pc = "rejected" /\ mainPc = "crashed"
          \/ /\ retval.kind = "record" /\ mainPc = "crashed"
             /\ Truthy(outPath) /\ Len(files) < 2 /\ stdout = <<>>
    /\ (mainPc = "done" /\ retval.kind = "record") =>
          /\ exitCode = 0
          /\ IF Truthy(outPath) THEN Len(files) = 2 /\ Len(stdout) = 1
             ELSE files = <<>> /\ Len(stdout) = 1

\* The main entry has ended after a run that returned null: the exit status
\* is 1, one diagnostic was written, nothing else.
ExitStatusWitness ==
    /\ mainPc = "done"
    /\ retval = NullValue
    /\ exitCode = 1 /\ Len(stderr) = 1
    /\ files = <<>> /\ stdout = <<>>

(***************************************************************************)
(* The plain-text print on its own: every title and every text up to       *)
(* MaxPlainLen.                                                            *)
(***************************************************************************)
PlainAlphabet == {"a", " ", "\n"}

PlainInit ==
    /\ RunInit
    /\ fnIn \in StringsUpTo(PlainAlphabet, MaxPlainLen)
    /\ fnOut = <<>> /\ fnStage = "raw" /\ html = <<>>
    /\ \E t \in StringsUpTo(PlainAlphabet, MaxPlainLen) :
           data = ArticleRecord(t, HrefAbsolute, fnIn, IsoString(0))
    /\ mainPc = "print" /\ outPath = Absent /\ stdout = <<>> /\ files = <<>>
    /\ twin = TwinIdle

NextPlain == MainPrint

SpecPlain == PlainInit /\ [][NextPlain]_vars

\* C17: the text printed is the line TITLE: <title>, present exactly when the
\* title is non-empty, then the line URL: <url>, then the separator line, then
\* the body text, or the placeholder exactly when the body text is empty;
\* nothing else is printed and nothing is left out.
PlainTextShape ==
    mainPc = "done" =>
        LET out == stdout[1]
            titleLine == <<"TITLE: ">> \o data.title
            urlLine == <<"URL: ">> \o data.url
            body == IF data.text # <<>> THEN data.text
                    ELSE <<"(No article text extracted)">>
        IN  /\ Len(stdout) = 1
            /\ out = (IF data.title # <<>> THEN titleLine \o <<"\n">> ELSE <<>>)
                     \o urlLine \o <<"\n", "---", "\n">> \o body
            /\ Split(out, "\n") =
                   (IF data.title # <<>> THEN Split(titleLine, "\n") ELSE <<>>)
                   \o <<urlLine, <<"---">>>> \o Split(body, "\n")

\* A record without title and without text has been printed: two lines and
\* the placeholder.
PlainTextWitness ==
    /\ mainPc = "done"
    /\ data.title = <<>> /\ data.text = <<>>
    /\ Len(Split(stdout[1], "\n")) = 3

(***************************************************************************)
(* The standalone script (part_000) run next to scraper.js without --out,  *)
(* against one driver: the k-th call of the script gets the response the   *)
(* k-th call of scraper.js got, and both see the same documents.  The      *)
(* script takes its steps as soon as the response to its next call is      *)
(* known; scraper.js goes on when the script has used every response.      *)
(***************************************************************************)
TwinStarted == [TwinIdle EXCEPT !.pc = "launch"]

InitTwin == RunInit /\ FnIdle /\ CliIdle /\ twin = TwinStarted

\* scraper.js has left its main entry.
MainEnded == mainPc \in {"done", "crashed"}

\* The responses the driver may give to the next call of the script: the one
\* it gave to the same call of scraper.js or, if scraper.js has ended without
\* making that call, any.
TwinResp == IF Len(twin.ops) < Len(ops) THEN {ops[Len(twin.ops) + 1].ok} ELSE BOOLEAN

TwinMayCall == Len(twin.ops) < Len(ops) \/ MainEnded

TwinWaits == Len(twin.ops) >= Len(ops)

\* const cleaned = ..., mutated: the text is printed as it was read.
TwinCleanedRaw(t) == t

\* const cleaned = text.split("\n").map(...).filter(Boolean).join("\n")
TwinCleaned(t) == Normalize(t)

\* A driver call of the script whose error is thrown.
TwinStep(step, o, a, next, msg) ==
    /\ twin.pc = step
    /\ TwinMayCall
    /\ \E ok \in TwinResp :
        twin' = [twin EXCEPT !.ops = Append(@, Op(o, a, ok)),
                             !.pc = IF ok THEN next ELSE OnThrow(step),
                             !.error = IF ok THEN @ ELSE msg]
    /\ UNCHANGED <<runVars, fnVars, cliVars>>

\* const browser = await chromium.launch({ headless: true })
TwinLaunch == TwinStep("launch", "launch", <<>>, "newContext", "LaunchError")

\* const context = await browser.newContext()
TwinNewContext == TwinStep("newContext", "newContext", <<>>, "newPage", "DriverError")

\* const page = await context.newPage()
TwinNewPage == TwinStep("newPage", "newPage", <<>>, "gotoHome", "DriverError")

\* await page.goto("https://yle.fi/", ...)
TwinGotoHome == TwinStep("gotoHome", "goto", HomeUrl, "waitForSelector", "NavigationError")

\* await page.waitForSelector(".underlay-link", { timeout: 30000 })
TwinWaitForSelector ==
    TwinStep("waitForSelector", "waitForSelector", <<".underlay-link">>, "getAttribute",
             "TimeoutError")

\* const href = await firstLink.getAttribute("href"); the !href check; targetUrl
TwinGetAttribute ==
    /\ twin.pc = "getAttribute"
    /\ TwinMayCall
    /\ \E ok \in TwinResp :
        LET h == FirstLink(doc.links)
            r == ResolveTarget(h)
            log == Append(twin.ops, Op("getAttribute", <<".underlay-link">>, ok))
            thrown(msg) == [twin EXCEPT !.ops = log, !.pc = OnThrow("getAttribute"),
                                        !.error = msg]
        IN  twin' = IF ~ok THEN thrown("DriverError")
                    ELSE IF h = Null \/ h = <<>>
                    THEN [thrown("No href found on the most recent .underlay-link")
                             EXCEPT !.href = h]
                    ELSE IF ~r.ok THEN [thrown("Invalid URL") EXCEPT !.href = h]
                    ELSE [twin EXCEPT !.ops = log, !.href = h, !.targetUrl = r.url,
                                      !.pc = "gotoArticle"]
    /\ UNCHANGED <<runVars, fnVars, cliVars>>

\* await page.goto(targetUrl, ...)
TwinGotoArticle ==
    TwinStep("gotoArticle", "goto", twin.targetUrl, "race", "NavigationError")

\* Promise.race([...]): both waits start.
TwinRaceStart ==
    /\ twin.pc = "race"
    /\ Len(twin.ops) + 2 <= Len(ops) \/ MainEnded
    /\ twin' = [twin EXCEPT !.ops = @ \o <<Op("waitFor", <<"article">>, TRUE),
                                           Op("waitFor", <<"content">>, TRUE)>>,
                            !.pc = "raceAwait"]
    /\ UNCHANGED <<runVars, fnVars, cliVars>>

\* await Promise.race([...]): the waits of the script settle as those of
\* scraper.js did.
TwinRaceProceed ==
    /\ twin.pc = "raceAwait"
    /\ \E w \in {"article", "content"} :
        /\ waits[w] # "pending" \/ MainEnded
        /\ twin' = IF SettledAs(waits[w]) = "fulfilled"
                   THEN [twin EXCEPT !.pc = "textContent"]
                   ELSE [twin EXCEPT !.pc = OnThrow("race"), !.error = "TimeoutError"]
    /\ UNCHANGED <<runVars, fnVars, cliVars>>

\* const title = (await page.locator("h1").first().textContent()
\*                  .catch(() => null))?.trim() || ""
TwinReadTitle ==
    /\ twin.pc = "textContent"
    /\ TwinMayCall
    /\ \E ok \in TwinResp :
        /\ ok => doc.h1 # Absent
        /\ twin' = [twin EXCEPT !.ops = Append(@, Op("textContent", <<"h1">>, ok)),
                                !.title = IF ok THEN Trim(doc.h1) ELSE <<>>,
                                !.pc = CountPc("article")]
    /\ UNCHANGED <<runVars, fnVars, cliVars>>

\* await <tier>Locator.count()
TwinTierCount(tier) ==
    /\ twin.pc = CountPc(tier)
    /\ TwinMayCall
    /\ \E ok \in TwinResp :
        twin' = [twin EXCEPT !.ops = Append(@, Op("count", <<tier>>, ok)),
                             !.pc = IF ~ok THEN OnThrow(CountPc(tier))
                                    ELSE IF doc[tier] # Absent THEN TextPc(tier)
                                    ELSE AfterTier(tier, twin.text),
                             !.error = IF ok THEN @ ELSE "DriverError"]
    /\ UNCHANGED <<runVars, fnVars, cliVars>>

\* text = (await <tier>Locator.first().innerText().catch(() => ""))?.trim()
TwinTierText(tier) ==
    /\ twin.pc = TextPc(tier)
    /\ TwinMayCall
    /\ \E ok \in TwinResp :
        LET t == Trim(IF ok THEN doc[tier] ELSE <<>>)
        IN  twin' = [twin EXCEPT !.ops = Append(@, Op("innerText", <<tier>>, ok)),
                                 !.text = t,
                                 !.pc = AfterTier(tier, t)]
    /\ UNCHANGED <<runVars, fnVars, cliVars>>

TwinArticleCount == TwinTierCount("article")
TwinArticleText == TwinTierText("article")
TwinContentCount == TwinTierCount("content")
TwinContentText == TwinTierText("content")
TwinMainCount == TwinTierCount("main")
TwinMainText == TwinTierText("main")

\* const cleaned = ...; const output = [...].filter(Boolean).join("\n");
\* console.log(output), inside the try block
TwinPrint ==
    /\ twin.pc = "build"
    /\ twin' = [twin EXCEPT !.stdout = Append(@, PlainText(twin.title, twin.targetUrl,
                                                           TwinCleaned(twin.text))),
                            !.pc = FinallyEntry("return")]
    /\ UNCHANGED <<runVars, fnVars, cliVars>>

\* catch (error) { console.error(...); process.exitCode = 1; }
TwinCatch ==
    /\ twin.pc = "catch"
    /\ twin' = [twin EXCEPT !.stderr = Append(@, <<"Scrape failed:", twin.error>>),
                            !.exitCode = 1,
                            !.pc = FinallyEntry("catch")]
    /\ UNCHANGED <<runVars, fnVars, cliVars>>

\* await <res>.close().catch(() => {})
TwinClose(res) ==
    /\ twin.pc = ClosePc(res)
    /\ TwinMayCall
    /\ \E ok \in TwinResp :
        twin' = [twin EXCEPT !.ops = Append(@, Op("close", <<res>>, ok)),
                             !.pc = AfterClose(res, ok)]
    /\ UNCHANGED <<runVars, fnVars, cliVars>>

TwinClosePage == TwinClose("page")
TwinCloseContext == TwinClose("context")
TwinCloseBrowser == TwinClose("browser")

\* fetchLatestYleArticle() at the entry guard, when its promise is rejected:
\* nothing handles the rejection, so the runtime writes the error to stderr
\* and ends the process with exit status 1.
TwinUnhandled ==
    /\ twin.pc = "rejected"
    /\ twin' = [twin EXCEPT !.stderr = Append(@, <<"Uncaught", twin.error>>),
                            !.exitCode = 1,
                            !.pc = "crashed"]
    /\ UNCHANGED <<runVars, fnVars, cliVars>>

\* process.argv without --out
MainArgvNoFlag == MainArgvFrom({Absent})

TwinNext ==
    \/ TwinLaunch \/ TwinNewContext \/ TwinNewPage
    \/ TwinGotoHome \/ TwinWaitForSelector \/ TwinGetAttribute \/ TwinGotoArticle
    \/ TwinRaceStart \/ TwinRaceProceed \/ TwinReadTitle
    \/ TwinArticleCount \/ TwinArticleText \/ TwinContentCount \/ TwinContentText
    \/ TwinMainCount \/ TwinMainText
    \/ TwinPrint \/ TwinCatch
    \/ TwinClosePage \/ TwinCloseContext \/ TwinCloseBrowser
    \/ TwinUnhandled

\* A step of scraper.js run without --out, or a step of the script.
NextBoth ==
    \/ TwinWaits /\ Launch
    \/ TwinWaits /\ NewContext
    \/ TwinWaits /\ NewPage
    \/ TwinWaits /\ GotoHome
    \/ TwinWaits /\ WaitForSelector
    \/ TwinWaits /\ GetAttribute
    \/ TwinWaits /\ GotoArticle
    \/ TwinWaits /\ RaceStart
    \/ TwinWaits /\ SettleArticleWait
    \/ TwinWaits /\ SettleContentWait
    \/ TwinWaits /\ RaceProceed
    \/ TwinWaits /\ ReadTitle
    \/ TwinWaits /\ ArticleCount
    \/ TwinWaits /\ ArticleText
    \/ TwinWaits /\ ContentCount
    \/ TwinWaits /\ ContentText
    \/ TwinWaits /\ MainCount
    \/ TwinWaits /\ MainText
    \/ TwinWaits /\ Build
    \/ TwinWaits /\ Catch
    \/ TwinWaits /\ ClosePage
    \/ TwinWaits /\ CloseContext
    \/ TwinWaits /\ CloseBrowser
    \/ TwinWaits /\ MainAwaitData
    \/ TwinWaits /\ MainAwaitRejected
    \/ TwinWaits /\ MainArgvNoFlag
    \/ TwinWaits /\ MainPrint
    \/ TwinNext

SpecTwin == InitTwin /\ [][NextBoth]_vars

TwinEnded == twin.pc \in {"returned", "crashed"}

\* C20: on the same driver responses the standalone script issues the driver
\* operations scraper.js issues, in the same order with the same arguments,
\* and when both have ended they have printed the same text to standard
\* output and left the same exit status.
EntryPointsAgree ==
    /\ Len(twin.ops) <= Len(ops)
    /\ twin.ops = SubSeq(ops, 1, Len(twin.ops))
    /\ (TwinEnded /\ MainEnded) =>
          /\ twin.ops = ops
          /\ twin.stdout = stdout
          /\ twin.exitCode = exitCode

\* Both have ended after printing a text with a title line and a body that
\* the normalizer changed.
EntryPointsAgreeWitness ==
    /\ TwinEnded /\ MainEnded
    /\ Len(stdout) = 1 /\ twin.stdout = stdout
    /\ twin.title # <<>>
    /\ TwinCleaned(twin.text) # twin.text

====
